---- MODULE Spec2Model ----
(***************************************************************************)
(* bitcoin-rpc-cli (src/src/main.rs): one run of the process.  The node is *)
(* a fixed chain; the process parses one subcommand, calls the metric      *)
(* function, and prints.  Each RPC round-trip is one step.                 *)
(*                                                                         *)
(* 64-bit machine integers are sequences of four 16-bit limbs (most        *)
(* significant first), because the casts of avg_time_to_mine and the       *)
(* wrapping subtraction of time_to_mine produce values near 2^64.          *)
(***************************************************************************)
EXTENDS Integers, Sequences, FiniteSets, TLC

\* ---------------------------------------------------------------- bounds
MaxOffset == 2
\* heights modelled: the first MaxOffset+1 blocks of epochs 0..MaxEpoch
MaxEpoch == 1
\* header timestamps are drawn from 0..MaxTime
MaxTime == 2
\* the wall clock read by Utc::now() is drawn from 0..MaxNow
MaxNow == 3
\* timestamp(h) is periodic in h with this period
PatLen == 3

\* ------------------------------------------------------ program constants
EpochLen == 2016

Limb == 2 ^ 16

Heights == UNION { (e * EpochLen)..(e * EpochLen + MaxOffset) : e \in 0..MaxEpoch }

Times == 0..MaxTime

TxCounts == {1, Limb - 1, Limb, Limb + 237}

Builds == {"debug", "release"}

Commands ==
    {[name |-> "None", block_height |-> 0],
     [name |-> "Chain", block_height |-> 0],
     [name |-> "NextBlock", block_height |-> 0]}
    \cup [name : {"TimeToMine", "NumberOfTransactions"}, block_height : Heights]

\* ------------------------------------------------------- machine integers
\* x reduced modulo 2^64, for |x| < 2^31  (`as u64`, wrapping arithmetic)
ToU64(x) ==
    LET top == IF x < 0 THEN Limb - 1 ELSE 0
    IN  <<top, top, (x \div Limb) % Limb, x % Limb>>

\* unsigned long division of a u64 by 0 < n < 2^15, one limb at a time
RECURSIVE DivLimbs(_, _, _, _)
DivLimbs(u, n, i, rem) ==
    IF i > Len(u) THEN <<>>
    ELSE LET cur == rem * Limb + u[i]
         IN  <<cur \div n>> \o DivLimbs(u, n, i + 1, cur % n)

U64Div(u, n) == DivLimbs(u, n, 1, 0)

\* lexicographic comparison of two u64
RECURSIVE LimbsLeq(_, _, _)
LimbsLeq(a, b, i) ==
    IF i > Len(a) THEN TRUE
    ELSE IF a[i] # b[i] THEN a[i] < b[i]
    ELSE LimbsLeq(a, b, i + 1)

U64Leq(a, b) == LimbsLeq(a, b, 1)

\* `as i64` of a u64 keeps the bits; the sign is the top bit
I64Negative(u) == u[1] >= Limb \div 2

\* the value of an i64 that fits the model's integers
I64ToInt(u) ==
    CASE u[1] = 0 /\ u[2] = 0 /\ u[3] < Limb \div 2 -> u[3] * Limb + u[4]
      [] u[1] = Limb - 1 /\ u[2] = Limb - 1 /\ u[3] >= Limb \div 2 ->
            (u[3] - Limb) * Limb + u[4]

\* a u64 height that is small enough to name a block of the model, else -1
U64ToHeight(u) ==
    IF u[1] = 0 /\ u[2] = 0 /\ u[3] < Limb \div 2 THEN u[3] * Limb + u[4] ELSE -1

\* chrono's bound on Duration::seconds: |secs| <= i64::MAX / 1000
\* = 9223372036854775 = 0x0020_C49B_A5E3_53F7, and its negation modulo 2^64
MaxSecs == <<32, 50331, 42467, 21495>>

MinSecs == <<65503, 15204, 23068, 44041>>

\* Duration::seconds(v as i64): panics when out of bounds
DurationSeconds(u) ==
    IF (~I64Negative(u) /\ ~U64Leq(u, MaxSecs)) \/ (I64Negative(u) /\ ~U64Leq(MinSecs, u))
    THEN [kind |-> "panic", val |-> 0]
    ELSE [kind |-> "ok", val |-> I64ToInt(u)]

\* a subtraction that clamps a negative interval to zero
DurationSubClamped(a, b) == IF a - b < 0 THEN 0 ELSE a - b

\* Duration - Duration
DurationSub(a, b) == a - b

\* signed integer division truncated toward zero, b > 0
TruncDiv(a, b) == IF a >= 0 THEN a \div b ELSE -((-a) \div b)

\* Duration::num_minutes
num_minutes(secs) == TruncDiv(secs, 60)

\* Duration::num_days
num_days(secs) == TruncDiv(secs, 86400)

\* `len() as u16`
AsU16(n) == n % Limb

\* ------------------------------------------------------------------ state
VARIABLES
    chain,       \* the node: [tip, times, txs], fixed during the run
    build,       \* "debug" (overflow checks on) or "release" (wrapping)
    command,     \* cli.command
    pc,          \* position inside the current function
    phase,       \* which call of which metric function is in progress
    arg,         \* block_height of the get_block_by_height in progress (u64)
    hash,        \* result of get_block_hash: <<h>>, or <<>> when none
    block,       \* result of get_block: [time, txs]
    tip,         \* guess_time_to_mine_next_block's local `tip`
    vals,        \* timestamps already fetched by the metric function
    avg_result,  \* what avg_time_to_mine returned: [kind, val]
    now,         \* guess_time_to_mine_next_block's local `now`
    conn,        \* RPC_CLIENT: "uninit", "ready" or "failed"
    connects,    \* number of times the RPC_CLIENT initialiser ran
    trace,       \* calls of get_block_by_height and RPC round-trips, in order
    stdout,      \* lines printed by println!
    stderr,      \* lines printed by eprintln! and by the panic handler
    exit,        \* <<>> while running, <<status>> once terminated
    result       \* what the metric function returned: [kind, val]

vars == <<chain, build, command, pc, phase, arg, hash, block, tip, vals,
          avg_result, now, conn, connects, trace, stdout, stderr, exit, result>>

NoResult == [kind |-> "none", val |-> 0]

Ok(v) == [kind |-> "ok", val |-> v]

\* ------------------------------------------------------------------- node
\* header.time of the block at height h
timestamp(h) == chain.times[h % PatLen]

\* the node knows a block at this u64 height
BlockExists(u) == U64ToHeight(u) >= 0 /\ U64ToHeight(u) <= chain.tip

Init ==
    /\ chain \in [tip : Heights, times : [0..(PatLen - 1) -> Times], txs : TxCounts]
    /\ build \in Builds
    /\ command \in Commands
    /\ pc = "main"
    /\ phase = "none"
    /\ arg = ToU64(0)
    /\ hash = <<>>
    /\ block = [time |-> 0, txs |-> 0]
    /\ tip = 0
    /\ vals = <<>>
    /\ avg_result = NoResult
    /\ now = 0
    /\ conn = "uninit"
    /\ connects = 0
    /\ trace = <<>>
    /\ stdout = <<>>
    /\ stderr = <<>>
    /\ exit = <<>>
    /\ result = NoResult

\* ------------------------------------------------------------ termination
\* the process ends: res is what the metric function produced, outs and errs
\* are the lines written on the way out
Terminate(res, outs, errs, code) ==
    /\ result' = res
    /\ stdout' = stdout \o outs
    /\ stderr' = stderr \o errs
    /\ exit' = <<code>>
    /\ pc' = "done"

\* an Err travels through `?` to call_command and to main, which prints it
\* and returns from main normally
ReturnErr ==
    Terminate([kind |-> "err", val |-> 0], <<>>, <<<<"Error: {}">>>>, 0)

\* a panic on the main thread: message on the error stream, status 101
Panic(msg) ==
    Terminate([kind |-> "panic", val |-> 0], <<>>, <<<<"thread 'main' panicked", msg>>>>, 101)

\* the Ok arm of call_command prints the line and main returns normally
PrintOk(v, line) == Terminate(Ok(v), <<line>>, <<>>, 0)

\* ------------------------------------------------------------------- main
main ==
    /\ pc = "main"
    /\ IF command.name = "None"
       THEN /\ stderr' = Append(stderr, <<"No command provided">>)
            /\ exit' = <<0>>
            /\ pc' = "done"
       ELSE /\ pc' = "call_command"
            /\ UNCHANGED <<stderr, exit>>
    /\ UNCHANGED <<chain, build, command, phase, arg, hash, block, tip, vals,
                   avg_result, now, conn, connects, trace, stdout, result>>

\* the metric function each command calls first
FirstPhase(name) ==
    CASE name = "Chain" -> "get_chain"
      [] name = "TimeToMine" -> "time_to_mine_cur"
      [] name = "NumberOfTransactions" -> "number_of_transactions"
      [] name = "NextBlock" -> "guess_tip"

call_command ==
    /\ pc = "call_command"
    /\ phase' = FirstPhase(command.name)
    /\ arg' = ToU64(command.block_height)
    /\ stdout' = IF command.name = "NextBlock"
                 THEN Append(stdout, <<"Next block will be mined in: ">>)
                 ELSE stdout
    /\ pc' = "deref"
    /\ UNCHANGED <<chain, build, command, hash, block, tip, vals, avg_result,
                   now, conn, connects, trace, stderr, exit, result>>

\* ------------------------------------------------------------- RPC_CLIENT
\* an initialiser that runs on every dereference
NeedsInitAlways(c) == TRUE

\* lazy_static: the initialiser runs on a dereference only while the cell
\* is still uninitialised
NeedsInit(c) == c = "uninit"

\* the RPC call that follows `&*RPC_CLIENT` in the function in progress
DerefTarget(ph) ==
    CASE ph = "get_chain" -> "rpc_info"
      [] ph = "guess_tip" -> "rpc_count"
      [] OTHER -> "rpc_hash"

\* `let rpc = &*RPC_CLIENT;` at the head of get_block_by_height, get_chain
\* and guess_time_to_mine_next_block
RPC_CLIENT ==
    /\ pc = "deref"
    /\ trace' = IF DerefTarget(phase) = "rpc_hash"
                THEN Append(trace, [op |-> "get_block_by_height", h |-> arg, ok |-> TRUE])
                ELSE trace
    /\ IF NeedsInit(conn)
       THEN /\ connects' = connects + 1
            /\ \E outcome \in {"ok", "env", "client"} :
                 CASE outcome = "ok" ->
                        /\ conn' = "ready"
                        /\ pc' = DerefTarget(phase)
                        /\ UNCHANGED <<stdout, stderr, exit, result>>
                   [] outcome = "env" ->
                        /\ conn' = "failed"
                        /\ Panic("not set")
                   [] outcome = "client" ->
                        /\ conn' = "failed"
                        /\ Terminate([kind |-> "panic", val |-> 0], <<>>,
                                     << <<"Error connecting to client: {:?}">>,
                                        <<"thread 'main' panicked", "explicit panic">> >>,
                                     101)
       ELSE /\ pc' = DerefTarget(phase)
            /\ UNCHANGED <<conn, connects, stdout, stderr, exit, result>>
    /\ UNCHANGED <<chain, build, command, phase, arg, hash, block, tip, vals,
                   avg_result, now>>

\* ------------------------------------------------------------ round-trips
\* a hash lookup whose Err is dropped instead of returned
HashPropagatesNever(ok) == FALSE

\* `?` on the result of get_block_hash: an Err leaves get_block_by_height
HashPropagates(ok) == ~ok

get_block_hash ==
    /\ pc = "rpc_hash"
    /\ conn = "ready"
    /\ \E net \in BOOLEAN :
         LET ok == net /\ BlockExists(arg)
         IN  /\ trace' = Append(trace, [op |-> "getblockhash", h |-> arg, ok |-> ok])
             /\ hash' = IF ok THEN <<U64ToHeight(arg)>> ELSE <<>>
             /\ IF HashPropagates(ok)
                THEN ReturnErr
                ELSE /\ pc' = "rpc_block"
                     /\ UNCHANGED <<stdout, stderr, exit, result>>
    /\ UNCHANGED <<chain, build, command, phase, arg, block, tip, vals,
                   avg_result, now, conn, connects>>

get_block ==
    /\ pc = "rpc_block"
    /\ conn = "ready"
    /\ \E net \in BOOLEAN :
         LET ok == net /\ hash # <<>>
         IN  /\ trace' = Append(trace, [op |-> "getblock", h |-> arg, ok |-> ok])
             /\ IF ok
                THEN /\ block' = [time |-> timestamp(hash[1]), txs |-> chain.txs]
                     /\ pc' = "ret"
                     /\ UNCHANGED <<stdout, stderr, exit, result>>
                ELSE /\ ReturnErr
                     /\ UNCHANGED block
    /\ UNCHANGED <<chain, build, command, phase, arg, hash, tip, vals,
                   avg_result, now, conn, connects>>

get_block_count ==
    /\ pc = "rpc_count"
    /\ conn = "ready"
    /\ \E ok \in BOOLEAN :
         /\ trace' = Append(trace, [op |-> "getblockcount", h |-> ToU64(0), ok |-> ok])
         /\ IF ok
            THEN /\ tip' = chain.tip
                 /\ pc' = "ret"
                 /\ UNCHANGED <<stdout, stderr, exit, result>>
            ELSE /\ ReturnErr
                 /\ UNCHANGED tip
    /\ UNCHANGED <<chain, build, command, phase, arg, hash, block, vals,
                   avg_result, now, conn, connects>>

get_blockchain_info ==
    /\ pc = "rpc_info"
    /\ conn = "ready"
    /\ \E ok \in BOOLEAN :
         /\ trace' = Append(trace, [op |-> "getblockchaininfo", h |-> ToU64(0), ok |-> ok])
         /\ IF ok
            THEN /\ pc' = "ret"
                 /\ UNCHANGED <<stdout, stderr, exit, result>>
            ELSE ReturnErr
    /\ UNCHANGED <<chain, build, command, phase, arg, hash, block, tip, vals,
                   avg_result, now, conn, connects>>

\* --------------------------------------------------------- metric functions
get_chain ==
    /\ pc = "ret"
    /\ phase = "get_chain"
    /\ PrintOk(0, <<"{}", "chain">>)
    /\ UNCHANGED <<chain, build, command, phase, arg, hash, block, tip, vals,
                   avg_result, now, conn, connects, trace>>

\* time_to_mine after get_block_time(block_height)? returned: block_height - 1
\* is evaluated next, checked in a debug build and wrapping in a release build
time_to_mine_pred ==
    /\ pc = "ret"
    /\ phase = "time_to_mine_cur"
    /\ IF command.block_height - 1 < 0 /\ build = "debug"
       THEN /\ Panic("attempt to subtract with overflow")
            /\ UNCHANGED <<phase, arg, vals>>
       ELSE /\ vals' = <<block.time>>
            /\ arg' = ToU64(command.block_height - 1)
            /\ phase' = "time_to_mine_prev"
            /\ pc' = "deref"
            /\ UNCHANGED <<stdout, stderr, exit, result>>
    /\ UNCHANGED <<chain, build, command, hash, block, tip, avg_result, now,
                   conn, connects, trace>>

\* time_to_mine after get_block_time(block_height - 1)? returned
time_to_mine ==
    /\ pc = "ret"
    /\ phase = "time_to_mine_prev"
    /\ LET time == DurationSub(vals[1], block.time)
       IN  PrintOk(time, <<"{}s, {}min", time, num_minutes(time)>>)
    /\ UNCHANGED <<chain, build, command, phase, arg, hash, block, tip, vals,
                   avg_result, now, conn, connects, trace>>

number_of_transactions ==
    /\ pc = "ret"
    /\ phase = "number_of_transactions"
    /\ LET num == AsU16(block.txs)
       IN  PrintOk(num, <<"{} transactions", num>>)
    /\ UNCHANGED <<chain, build, command, phase, arg, hash, block, tip, vals,
                   avg_result, now, conn, connects, trace>>

\* avg_time_to_mine's locals for a given block_height
num_blocks_in_epoch(h) == h % EpochLen

first_block_in_epoch(h) == h - num_blocks_in_epoch(h)

\* total_diff.num_seconds() as u64 / num_blocks_in_epoch, then
\* Duration::seconds(avg_diff as i64); n > 0
AvgDiff(total_diff, n) == DurationSeconds(U64Div(ToU64(total_diff), n))

\* guess_time_to_mine_next_block after get_block_count()? returned: it calls
\* avg_time_to_mine(tip), which starts with get_block_time(block_height)
avg_time_to_mine_cur ==
    /\ pc = "ret"
    /\ phase = "guess_tip"
    /\ arg' = ToU64(tip)
    /\ phase' = "avg_cur"
    /\ pc' = "deref"
    /\ UNCHANGED <<chain, build, command, hash, block, tip, vals, avg_result,
                   now, conn, connects, trace, stdout, stderr, exit, result>>

\* avg_time_to_mine after get_block_time(block_height)? returned
avg_time_to_mine_first ==
    /\ pc = "ret"
    /\ phase = "avg_cur"
    /\ vals' = <<block.time>>
    /\ arg' = ToU64(first_block_in_epoch(tip))
    /\ phase' = "avg_first"
    /\ pc' = "deref"
    /\ UNCHANGED <<chain, build, command, hash, block, tip, avg_result, now,
                   conn, connects, trace, stdout, stderr, exit, result>>

\* avg_time_to_mine after get_block_time(first_block_in_epoch)? returned
avg_time_to_mine ==
    /\ pc = "ret"
    /\ phase = "avg_first"
    /\ LET total_diff == DurationSub(vals[1], block.time)
           n == num_blocks_in_epoch(tip)
       IN  IF n = 0
           THEN /\ Panic("attempt to divide by zero")
                /\ avg_result' = [kind |-> "panic", val |-> 0]
                /\ UNCHANGED phase
           ELSE IF AvgDiff(total_diff, n).kind = "panic"
           THEN /\ Panic("Duration::seconds out of bounds")
                /\ avg_result' = [kind |-> "panic", val |-> 0]
                /\ UNCHANGED phase
           ELSE /\ avg_result' = AvgDiff(total_diff, n)
                /\ phase' = "guess_now"
                /\ UNCHANGED <<pc, stdout, stderr, exit, result>>
    /\ UNCHANGED <<chain, build, command, arg, hash, block, tip, vals, now,
                   conn, connects, trace>>

\* guess_time_to_mine_next_block reads the clock, then get_block_time(tip)
guess_now ==
    /\ pc = "ret"
    /\ phase = "guess_now"
    /\ now' \in 0..MaxNow
    /\ arg' = ToU64(tip)
    /\ phase' = "guess_cur"
    /\ pc' = "deref"
    /\ UNCHANGED <<chain, build, command, hash, block, tip, vals, avg_result,
                   conn, connects, trace, stdout, stderr, exit, result>>

\* avg_time - Duration::seconds(now - get_block_time(tip)?.num_seconds())
GuessValue(avg_time, n, tip_time) == DurationSub(avg_time, n - tip_time)

guess_time_to_mine_next_block ==
    /\ pc = "ret"
    /\ phase = "guess_cur"
    /\ LET time == GuessValue(avg_result.val, now, block.time)
       IN  PrintOk(time, <<"{}s, {}min, {}days", time, num_minutes(time), num_days(time)>>)
    /\ UNCHANGED <<chain, build, command, phase, arg, hash, block, tip, vals,
                   avg_result, now, conn, connects, trace>>

Next ==
    \/ main
    \/ call_command
    \/ RPC_CLIENT
    \/ get_block_hash
    \/ get_block
    \/ get_block_count
    \/ get_blockchain_info
    \/ get_chain
    \/ time_to_mine_pred
    \/ time_to_mine
    \/ number_of_transactions
    \/ avg_time_to_mine_cur
    \/ avg_time_to_mine_first
    \/ avg_time_to_mine
    \/ guess_now
    \/ guess_time_to_mine_next_block

Spec == Init /\ [][Next]_vars

\* ----------------------------------------------------------------- claims
Done == pc = "done"

\* every round-trip issued so far succeeded
AllOk == \A i \in 1..Len(trace) : trace[i].ok

RoundTrips == {i \in 1..Len(trace) : trace[i].op # "get_block_by_height"}

Running(name) == command.name = name /\ conn = "ready"

\* C1: for 0 < h with blocks h and h-1 retrieved, time_to_mine(h) returns
\* timestamp(h) - timestamp(h-1) as a signed number of seconds, negative when
\* block h carries the earlier timestamp, and that value is what is printed.
C1_TimeToMineSigned ==
    (Done /\ Running("TimeToMine") /\ command.block_height > 0 /\ AllOk) =>
        LET d == timestamp(command.block_height) - timestamp(command.block_height - 1)
        IN  /\ result = Ok(d)
            /\ stdout = << <<"{}s, {}min", d, TruncDiv(d, 60)>> >>

C1_Witness ==
    /\ Done /\ Running("TimeToMine") /\ command.block_height > 0 /\ AllOk
    /\ result.kind = "ok" /\ result.val < 0
    /\ timestamp(command.block_height) < timestamp(command.block_height - 1)

\* C2: time_to_mine(0) returns an error value: no arithmetic panic, no
\* wrapped height 2^64-1 sent to the node, no duration.
C2_GenesisFailsExplicitly ==
    (Done /\ Running("TimeToMine") /\ command.block_height = 0) =>
        /\ result.kind = "err"
        /\ \A i \in 1..Len(trace) : trace[i].h # ToU64(-1)

\* C3: for h with h mod 2016 # 0 and both blocks retrieved, avg_time_to_mine(h)
\* returns (timestamp(h) - timestamp(h - h mod 2016)) / (h mod 2016), signed
\* division truncated toward zero, also when the difference is negative.
C3_AvgSignedTruncated ==
    (avg_result.kind # "none" /\ num_blocks_in_epoch(tip) # 0) =>
        avg_result = Ok(TruncDiv(timestamp(tip) - timestamp(first_block_in_epoch(tip)),
                                 num_blocks_in_epoch(tip)))

\* avg_time_to_mine(tip) has been entered
AvgEntered ==
    \E i \in 1..Len(trace) : trace[i].op = "getblockcount" /\ trace[i].ok

\* C4: for h with h mod 2016 = 0, avg_time_to_mine(h) returns an error value:
\* it never divides by zero, never panics, never returns a duration.
C4_EpochBoundaryError ==
    (Done /\ Running("NextBlock") /\ AvgEntered /\ num_blocks_in_epoch(tip) = 0) =>
        /\ result.kind = "err"
        /\ avg_result.kind # "panic"

\* C5: number_of_transactions(h) returns exactly the number of transactions of
\* block h; a count that does not fit the result width is an error, never the
\* count reduced modulo 2^16.
C5_TxCountExact ==
    (Done /\ Running("NumberOfTransactions") /\ AllOk) =>
        \/ result = Ok(chain.txs)
        \/ (chain.txs >= Limb /\ result.kind = "err")

\* C6: with tip mod 2016 # 0 and every node query successful,
\* guess_time_to_mine_next_block returns avg_time_to_mine(tip) minus
\* (now - timestamp(tip)), negative when overdue, not clamped.
C6_GuessIsAvgMinusElapsed ==
    (Done /\ Running("NextBlock") /\ AllOk /\ num_blocks_in_epoch(chain.tip) # 0) =>
        /\ avg_result.kind = "ok"
        /\ result = Ok(avg_result.val - (now - timestamp(chain.tip)))

\* C7: a failed RPC call is returned to main without a retry, main prints it
\* to the error stream, and the process ends with a non-zero exit status.
C7_RpcErrorExitsNonZero ==
    (Done /\ ~AllOk) =>
        /\ result.kind = "err"
        /\ ~trace[Len(trace)].ok
        /\ \A i \in 1..(Len(trace) - 1) : trace[i].ok
        /\ stderr = << <<"Error: {}">> >>
        /\ exit # <<0>>

\* C8: a command that fails has written nothing to standard output and exactly
\* one line to the error stream.
C8_AllOrNothing ==
    (Done /\ conn = "ready" /\ result.kind # "ok") =>
        /\ stdout = <<>>
        /\ Len(stderr) = 1

\* C9: get_block_by_height asks the node for the hash of the height first and
\* then for the block of that hash, two round-trips when both succeed; after a
\* failed hash lookup no block lookup is issued and the error is returned;
\* every call issues its own round-trips, also for a height fetched before.
C9_HashThenBlockEveryCall ==
    \A i \in 1..Len(trace) :
        /\ trace[i].op = "getblock" =>
              /\ i > 1
              /\ trace[i - 1] = [op |-> "getblockhash", h |-> trace[i].h, ok |-> TRUE]
        /\ trace[i].op = "getblockhash" =>
              /\ i > 1
              /\ trace[i - 1] = [op |-> "get_block_by_height", h |-> trace[i].h, ok |-> TRUE]
              /\ trace[i].ok => (i < Len(trace) => trace[i + 1].op = "getblock")
              /\ trace[i].ok => (i = Len(trace) => pc = "rpc_block")
              /\ ~trace[i].ok => (i = Len(trace) /\ Done /\ result.kind = "err")
        /\ trace[i].op = "get_block_by_height" =>
              /\ i < Len(trace) => trace[i + 1].op = "getblockhash"
              /\ i = Len(trace) => (pc = "rpc_hash" \/ conn = "failed")

C9_Witness ==
    /\ Done
    /\ \E i, j \in 1..Len(trace) :
          /\ i + 2 < j
          /\ trace[i].op = "getblock" /\ trace[i].ok
          /\ trace[j].op = "getblock" /\ trace[j].ok
          /\ trace[i].h = trace[j].h
          /\ trace[j - 1].op = "getblockhash"
          /\ trace[j - 2].op = "get_block_by_height"

\* C10: the connection is established at most once per run, never before a
\* metric function is called and never in a run without a subcommand; every
\* round-trip uses it; a failure to establish it is reported on the error
\* stream and ends the process with a non-zero exit status.
C10_OneLazyConnection ==
    /\ connects <= 1
    /\ command.name = "None" => connects = 0
    /\ connects > 0 => phase # "none"
    /\ (conn # "uninit") = (connects = 1)
    /\ RoundTrips # {} => conn = "ready"
    /\ conn = "failed" =>
          /\ Done
          /\ stderr # <<>>
          /\ exit # <<0>>
          /\ RoundTrips = {}

C10_Witness ==
    /\ Done
    /\ connects = 1
    /\ Cardinality(RoundTrips) >= 6

====
